---- MODULE Spec2Model ----
(***************************************************************************)
(* Model of client/backend.go: resolving a backend config block into a    *)
(* validated terraform state (NewBackend, NewLocalTerraformBackend,       *)
(* NewS3TerraformBackend, parseAndValidate).                               *)
(*                                                                         *)
(* One resolve is a sequence of steps; every call that leaves the process *)
(* (yaml, hcl, os, aws sdk) is one step whose outcome is chosen by the     *)
(* environment.  `log` records the steps in the order the code runs them.  *)
(***************************************************************************)
EXTENDS Integers, Sequences, FiniteSets, TLC

VARIABLES cfg, pc, b, log, ret, stream, openFiles, openBodies, sess, creds,
          resolves, prev

vars == <<cfg, pc, b, log, ret, stream, openFiles, openBodies, sess, creds,
          resolves, prev>>

(* ------------------------------ bounds --------------------------------- *)

\* number of resolves run one after the other
MaxResolves == 2

(* ------------------------- constants of the code ----------------------- *)

\* BackendType values LOCAL and S3
BackendLOCAL == "local"
BackendS3 == "s3"

\* cqproto.ConfigFormat
ConfigHCL == "hcl"
ConfigYAML == "yaml"

\* the single supported state version (declared beside TerraformData)
StateVersion == 4

(* --------------------------- attribute payload ------------------------- *)

\* A value of the attribute payload: a string, a non-scalar (list/map), or a
\* value whose yaml encoding fails (a Marshaler returning an error).
Absent == [t |-> "absent", s |-> ""]
Str(s) == [t |-> "str", s |-> s]
NonScalar == [t |-> "seq", s |-> ""]
BadMarshaler == [t |-> "badmarshaler", s |-> ""]

Keys == {"path", "bucket", "key", "region", "role_arn", "extra"}

\* fields of LocalBackendConfig / S3BackendConfig with their hcl tags
LocalRequired == {"path"}
LocalOptional == {}
S3Required == {"bucket", "key", "region"}
S3Optional == {"role_arn"}

\* Go zero value of both config structs (unused fields stay "")
ZeroConfig == [path |-> "", bucket |-> "", key |-> "", region |-> "", role_arn |-> ""]

Present(attrs) == {k \in Keys : attrs[k].t # "absent"}

\* gohcl.DecodeBody(cfg, nil, &b): every attribute of the body must be a
\* field of the target, every field not tagged optional must be present, and
\* every value must convert to string.
DecodeBody(attrs, required, optional) ==
  IF \/ Present(attrs) \ (required \cup optional) # {}
     \/ required \ Present(attrs) # {}
     \/ \E k \in Present(attrs) : attrs[k].t # "str"
  THEN [err |-> TRUE, b |-> ZeroConfig]
  ELSE [err |-> FALSE,
        b |-> [f \in DOMAIN ZeroConfig |->
                 IF f \in Present(attrs) THEN attrs[f].s ELSE ""]]

\* yaml.Marshal(config.ConfigAttrsYAML): the document holds the present keys;
\* when a value cannot be encoded the bytes are nil and an error is returned.
YamlMarshal(attrs) ==
  IF \E k \in Present(attrs) : attrs[k].t = "badmarshaler"
  THEN [err |-> TRUE, doc |-> [k \in {} |-> Absent]]
  ELSE [err |-> FALSE, doc |-> [k \in Present(attrs) |-> attrs[k]]]

\* yaml.Unmarshal(cfgBytes, &b): keys that name a field of the target are
\* decoded into it (a non-scalar cannot be decoded into a string), other keys
\* are ignored, fields without a key keep their zero value.
YamlUnmarshal(doc, fields) ==
  IF \E k \in DOMAIN doc \cap fields : doc[k].t # "str"
  THEN [err |-> TRUE, b |-> ZeroConfig]
  ELSE [err |-> FALSE,
        b |-> [f \in DOMAIN ZeroConfig |->
                 IF f \in DOMAIN doc \cap fields THEN doc[f].s ELSE ""]]

(* ------------------------------- arn.Parse ----------------------------- *)

GoodArn == "arn:aws:iam::1:role/r"
ShortArn == "arn:aws:iam"
NoPrefixArn == "role/r"

\* strings.SplitN(s, ":", 6) on the strings of the model
SplitN6(s) ==
  CASE s = GoodArn -> <<"arn", "aws", "iam", "", "1", "role/r">>
    [] s = ShortArn -> <<"arn", "aws", "iam">>
    [] OTHER -> <<s>>

\* a parse that checks the prefix only
ArnParsePrefixOnly(s) ==
  LET sections == SplitN6(s) IN
  IF ~(Len(sections) >= 2 /\ sections[1] = "arn") THEN [err |-> TRUE, sections |-> <<>>]
  ELSE [err |-> FALSE, sections |-> sections]

\* arn.Parse: the "arn:" prefix and exactly six sections
ArnParse(s) ==
  LET sections == SplitN6(s) IN
  IF ~(Len(sections) >= 2 /\ sections[1] = "arn") THEN [err |-> TRUE, sections |-> <<>>]
  ELSE IF Len(sections) # 6 THEN [err |-> TRUE, sections |-> <<>>]
  ELSE [err |-> FALSE, sections |-> sections]

(* --------------------------- parseAndValidate -------------------------- *)

\* A byte stream: its leading JSON value and whether bytes follow it.
\*   first = "notjson"  no JSON value can be read
\*   first = "array"    a JSON value that is not an object (nor null)
\*   first = "null"     the JSON null
\*   first = "object"   an object; ver describes its "version" member and
\*                      rest its other members
\* ver:  "absent" | "null" | "string" | "fraction" | "int" (then n is the number)
\* rest: "ok" | "mistyped" (a member of a JSON type its field cannot take)
Stream(first, ver, n, rest, trailing) ==
  [first |-> first, ver |-> ver, n |-> n, rest |-> rest, trailing |-> trailing]

Versions == {0, StateVersion - 1, StateVersion, StateVersion + 1}

StreamSet ==
  {Stream("notjson", "absent", 0, "ok", FALSE), Stream("array", "absent", 0, "ok", FALSE),
   Stream("null", "absent", 0, "ok", FALSE)}
  \cup {Stream("object", v, 0, "ok", FALSE) : v \in {"absent", "null", "string", "fraction"}}
  \cup {Stream("object", "int", n, "ok", t) : n \in {StateVersion - 1, StateVersion},
                                               t \in BOOLEAN}
  \cup {Stream("object", "int", n, "ok", FALSE) : n \in Versions}
  \cup {Stream("object", "int", n, "mistyped", FALSE) : n \in {StateVersion - 1, StateVersion}}

\* a decoder that demands the version member
JsonDecodeStrict(st) ==
  IF st.first = "object" /\ st.ver = "int" /\ st.rest = "ok"
  THEN [err |-> FALSE, Version |-> st.n]
  ELSE [err |-> TRUE, Version |-> 0]

\* json.NewDecoder(reader).Decode(&s.State): reads the first JSON value only;
\* null and missing members leave the zero value, a member of the wrong JSON
\* type is an error.
JsonDecode(st) ==
  CASE st.first = "notjson" -> [err |-> TRUE, Version |-> 0]
    [] st.first = "array" -> [err |-> TRUE, Version |-> 0]
    [] st.first = "null" -> [err |-> FALSE, Version |-> 0]
    [] OTHER ->
         CASE st.rest = "mistyped" -> [err |-> TRUE, Version |-> 0]
           [] st.ver \in {"absent", "null"} -> [err |-> FALSE, Version |-> 0]
           [] st.ver \in {"string", "fraction"} -> [err |-> TRUE, Version |-> 0]
           [] OTHER -> [err |-> FALSE, Version |-> st.n]

\* errors: msg is the message of the code, ver/arg its formatted operand
Err(msg, ver, arg) == [msg |-> msg, ver |-> ver, arg |-> arg]
NoErr == Err("nil", -1, "")

NoData == [nil |-> TRUE, Version |-> 0]

parseAndValidate(st) ==
  LET d == JsonDecode(st) IN
  IF d.err THEN [data |-> NoData, err |-> Err("invalid tf state file", -1, "")]
  ELSE IF d.Version # StateVersion
       THEN [data |-> NoData, err |-> Err("unsupported state version", d.Version, "")]
       ELSE [data |-> [nil |-> FALSE, Version |-> d.Version], err |-> NoErr]

(* ------------------------------- inputs -------------------------------- *)

Names == {"n1", "n2"}
Formats == {ConfigHCL, ConfigYAML}
ConfiguredRegion == "us-west-2"
DiscoveredRegions == {"eu-west-1"}

Payload(path, bucket, key, region, role, extra) ==
  [k \in Keys |->
     CASE k = "path" -> path [] k = "bucket" -> bucket [] k = "key" -> key
       [] k = "region" -> region [] k = "role_arn" -> role [] OTHER -> extra]

Extras == {Absent, Str("x"), BadMarshaler}

LocalPayloads ==
  {Payload(p, Absent, Absent, Absent, Absent, x) :
     p \in {Absent, Str("terraform.tfstate"), NonScalar}, x \in Extras}

S3Payloads ==
  {Payload(Absent, bk[1], bk[2], rr[1], rr[2], x) :
     bk \in {Absent, Str("bucket1"), NonScalar} \X {Absent, Str("key1")},
     rr \in {Absent, Str(""), Str(ConfiguredRegion)}
            \X {Absent, Str(GoodArn), Str(ShortArn), Str(NoPrefixArn)},
     x \in Extras}

OtherPayloads ==
  {Payload(Str("terraform.tfstate"), Absent, Absent, Absent, Absent, Absent),
   Payload(Absent, Str("bucket1"), Str("key1"), Absent, Absent, Absent)}

Block(name, kind, format, attrs) ==
  [BackendName |-> name, BackendType |-> kind, format |-> format, attrs |-> attrs]

\* BackendConfigBlock values: the payload is in the representation of the
\* block's format (a value that yaml cannot encode exists only in the map).
Blocks ==
  {blk \in
     {Block(n, BackendLOCAL, f, a) : n \in Names, f \in Formats, a \in LocalPayloads}
     \cup {Block(n, BackendS3, f, a) : n \in Names, f \in Formats, a \in S3Payloads}
     \cup {Block(n, k, f, a) : n \in Names, k \in {"gcs", ""}, f \in Formats,
                               a \in OtherPayloads} :
     blk.format = ConfigHCL => \A k \in Keys : blk.attrs[k].t # "badmarshaler"}

(* ------------------------------- state --------------------------------- *)

NoResult == [nil |-> TRUE, BackendType |-> "", BackendName |-> "", Data |-> NoData]
NoStream == Stream("none", "absent", 0, "ok", FALSE)
NoPrev == [some |-> FALSE, bucket |-> "", key |-> "", region |-> "", role_arn |-> ""]

\* one step of a resolve: the call, whether it succeeded, its region operand
Step(op, ok, arg) == [op |-> op, ok |-> ok, arg |-> arg]

\* no call in progress: the zero block and empty locals
NoBlock == Block("", "", ConfigYAML, Payload(Absent, Absent, Absent, Absent, Absent, Absent))

Init ==
  /\ cfg = NoBlock
  /\ pc = "idle"
  /\ b = ZeroConfig
  /\ log = <<>>
  /\ ret = [result |-> NoResult, err |-> NoErr]
  /\ stream = NoStream
  /\ openFiles = 0
  /\ openBodies = 0
  /\ sess = ""
  /\ creds = ""
  /\ resolves = 0
  /\ prev = NoPrev

\* a strategy returns (result, err) to NewBackend
Return(at, result, err) ==
  /\ ret' = [result |-> result, err |-> err]
  /\ pc' = at

(* ------------------------------ NewBackend ----------------------------- *)

\* a dispatch whose default case falls into the local strategy
NewBackendDefaultsToLocal ==
  /\ pc = "NewBackend"
  /\ pc' = IF cfg.BackendType = "s3" THEN "s3_decode" ELSE "local_decode"
  /\ UNCHANGED <<cfg, b, log, ret, stream, openFiles, openBodies, sess, creds, resolves, prev>>

\* switch cfg.BackendType
NewBackend ==
  /\ pc = "NewBackend"
  /\ CASE cfg.BackendType = "local" -> pc' = "local_decode" /\ UNCHANGED ret
       [] cfg.BackendType = "s3" -> pc' = "s3_decode" /\ UNCHANGED ret
       [] OTHER -> Return("done", NoResult, Err("unsupported backend", -1, ""))
  /\ UNCHANGED <<cfg, b, log, stream, openFiles, openBodies, sess, creds, resolves, prev>>

\* the value NewBackend hands to its caller from what the strategy returned
NewBackendResult(r) ==
  IF r.err # NoErr THEN [result |-> NoResult, err |-> r.err]
  ELSE [result |-> r.result, err |-> NoErr]

NewBackendReturn ==
  /\ pc \in {"local_returned", "s3_returned"}
  /\ ret' = NewBackendResult(ret)
  /\ pc' = "done"
  /\ UNCHANGED <<cfg, b, log, stream, openFiles, openBodies, sess, creds, resolves, prev>>

(* ----------------------- decoding the config block --------------------- *)

\* switch config.format: the steps run and the decoded config.  The error of
\* yaml.Marshal is discarded and its bytes are handed to yaml.Unmarshal.
DecodeConfig(block, required, optional) ==
  IF block.format = ConfigHCL
  THEN LET d == DecodeBody(block.attrs, required, optional) IN
       [steps |-> <<Step("DecodeBody", ~d.err, "")>>, err |-> d.err, b |-> d.b]
  ELSE LET m == YamlMarshal(block.attrs)
           u == YamlUnmarshal(m.doc, required \cup optional) IN
       [steps |-> <<Step("Marshal", ~m.err, ""), Step("Unmarshal", ~u.err, "")>>,
        err |-> u.err, b |-> u.b]

(* ----------------------- NewLocalTerraformBackend ---------------------- *)

LocalDecode ==
  /\ pc = "local_decode"
  /\ LET d == DecodeConfig(cfg, LocalRequired, LocalOptional) IN
       /\ log' = log \o d.steps
       /\ IF d.err
          THEN /\ Return("local_returned", NoResult,
                         Err("cannot parse local backend config", -1, ""))
               /\ UNCHANGED b
          ELSE /\ b' = d.b
               /\ pc' = "local_open"
               /\ UNCHANGED ret
  /\ UNCHANGED <<cfg, stream, openFiles, openBodies, sess, creds, resolves, prev>>

\* os.Open(b.Path): the empty path never opens
LocalOpen ==
  /\ pc = "local_open"
  /\ \/ /\ b.path # ""
        /\ \E st \in StreamSet : stream' = st
        /\ openFiles' = openFiles + 1
        /\ log' = Append(log, Step("Open", TRUE, ""))
        /\ pc' = "local_parse"
        /\ UNCHANGED ret
     \/ /\ log' = Append(log, Step("Open", FALSE, ""))
        /\ Return("local_returned", NoResult, Err("failed to read tfstate from", -1, b.path))
        /\ UNCHANGED <<stream, openFiles>>
  /\ UNCHANGED <<cfg, b, openBodies, sess, creds, resolves, prev>>

\* defer f.Close(): runs when the function returns after the open succeeded
NoClose(files) == files
DeferClose(files) == files - 1

\* the TerraformBackend a strategy builds from a parsed state
Backend(type, name, data) ==
  [nil |-> FALSE, BackendType |-> type, BackendName |-> name, Data |-> data]

LocalParse ==
  /\ pc = "local_parse"
  /\ LET r == parseAndValidate(stream) IN
       /\ log' = Append(log, Step("parseAndValidate", r.err = NoErr, ""))
       /\ IF r.err # NoErr
          THEN Return("local_returned", NoResult, r.err)
          ELSE Return("local_returned",
                      Backend(BackendLOCAL, cfg.BackendName, r.data), NoErr)
  /\ openFiles' = DeferClose(openFiles)
  /\ UNCHANGED <<cfg, b, stream, openBodies, sess, creds, resolves, prev>>

(* ------------------------ NewS3TerraformBackend ------------------------ *)

S3Decode ==
  /\ pc = "s3_decode"
  /\ LET d == DecodeConfig(cfg, S3Required, S3Optional) IN
       /\ log' = log \o d.steps
       /\ IF d.err
          THEN /\ Return("s3_returned", NoResult,
                         Err("cannot parse s3 backend config", -1, ""))
               /\ UNCHANGED b
          ELSE /\ b' = d.b
               /\ pc' = IF d.b.region = "" THEN "s3_discover_session" ELSE "s3_session"
               /\ UNCHANGED ret
  /\ UNCHANGED <<cfg, stream, openFiles, openBodies, sess, creds, resolves, prev>>

\* session.Must(session.NewSession()): the argument of GetBucketRegion;
\* Must panics when the session cannot be created
S3DiscoverySession ==
  /\ pc = "s3_discover_session"
  /\ \E ok \in BOOLEAN :
       /\ log' = Append(log, Step("NewSession", ok, ""))
       /\ pc' = IF ok THEN "s3_get_region" ELSE "panic"
  /\ UNCHANGED <<cfg, b, ret, stream, openFiles, openBodies, sess, creds, resolves, prev>>

\* s3manager.GetBucketRegion(ctx, sess, b.Bucket, "us-east-1")
S3GetBucketRegion ==
  /\ pc = "s3_get_region"
  /\ \/ \E region \in DiscoveredRegions :
          /\ log' = Append(log, Step("GetBucketRegion", TRUE, region))
          /\ b' = [b EXCEPT !.region = region]
          /\ pc' = "s3_session"
          /\ UNCHANGED ret
     \/ /\ log' = Append(log, Step("GetBucketRegion", FALSE, ""))
        /\ Return("s3_returned", NoResult, Err("GetBucketRegion", -1, b.bucket))
        /\ UNCHANGED b
  /\ UNCHANGED <<cfg, stream, openFiles, openBodies, sess, creds, resolves, prev>>

\* session.NewSessionWithOptions with Region: b.Region
S3NewSession ==
  /\ pc = "s3_session"
  /\ \/ /\ log' = Append(log, Step("NewSessionWithOptions", TRUE, b.region))
        /\ sess' = b.region
        /\ pc' = IF b.role_arn # "" THEN "s3_role" ELSE "s3_fetch"
        /\ UNCHANGED ret
     \/ /\ log' = Append(log, Step("NewSessionWithOptions", FALSE, b.region))
        /\ Return("s3_returned", NoResult, Err("NewSessionWithOptions", -1, ""))
        /\ UNCHANGED sess
  /\ UNCHANGED <<cfg, b, stream, openFiles, openBodies, creds, resolves, prev>>

\* parsedArn.String()
ArnString(sections) ==
  CASE sections = SplitN6(GoodArn) -> GoodArn
    [] OTHER -> ""

\* if b.RoleArn != "": arn.Parse, then stscreds.NewCredentials
S3AssumeRole ==
  /\ pc = "s3_role"
  /\ LET p == ArnParse(b.role_arn) IN
       /\ log' = Append(log, Step("arn.Parse", ~p.err, ""))
       /\ IF p.err
          THEN /\ Return("s3_returned", NoResult, Err("arn: invalid", -1, b.role_arn))
               /\ UNCHANGED creds
          ELSE /\ creds' = ArnString(p.sections)
               /\ pc' = "s3_fetch"
               /\ UNCHANGED ret
  /\ UNCHANGED <<cfg, b, stream, openFiles, openBodies, sess, resolves, prev>>

\* the GetObject calls one resolve makes for one outcome of the call
RetryGetObject(ok, region) ==
  IF ok THEN <<Step("GetObject", TRUE, region)>>
  ELSE <<Step("GetObject", FALSE, region), Step("GetObject", FALSE, region)>>
GetObjectCalls(ok, region) == <<Step("GetObject", ok, region)>>

\* svc.GetObject(Bucket: b.Bucket, Key: b.Key)
S3GetObject ==
  /\ pc = "s3_fetch"
  /\ \/ /\ log' = log \o GetObjectCalls(TRUE, sess)
        /\ \E st \in StreamSet : stream' = st
        /\ openBodies' = openBodies + 1
        /\ pc' = "s3_parse"
        /\ UNCHANGED ret
     \/ /\ log' = log \o GetObjectCalls(FALSE, sess)
        /\ Return("s3_returned", NoResult, Err("GetObject", -1, b.bucket))
        /\ UNCHANGED <<stream, openBodies>>
  /\ UNCHANGED <<cfg, b, openFiles, sess, creds, resolves, prev>>

\* parseAndValidate(result.Body); result.Body is not closed
S3Parse ==
  /\ pc = "s3_parse"
  /\ LET r == parseAndValidate(stream) IN
       /\ log' = Append(log, Step("parseAndValidate", r.err = NoErr, ""))
       /\ IF r.err # NoErr
          THEN Return("s3_returned", NoResult, r.err)
          ELSE Return("s3_returned", Backend(BackendS3, cfg.BackendName, r.data), NoErr)
  /\ UNCHANGED <<cfg, b, stream, openFiles, openBodies, sess, creds, resolves, prev>>

(* ------------------------------ the caller ----------------------------- *)

Fetched == \E i \in 1..Len(log) : log[i].op = "GetObject"

\* the caller calls NewBackend with a config block
NewResolveWith(blocks) ==
  /\ pc = "idle"
  /\ resolves < MaxResolves
  /\ resolves' = resolves + 1
  /\ cfg' \in blocks
  /\ pc' = "NewBackend"
  /\ UNCHANGED <<b, log, ret, stream, openFiles, openBodies, sess, creds, prev>>

NewResolve == NewResolveWith(Blocks)

\* the blocks whose payload yaml.Marshal can encode
EncodableBlocks ==
  {blk \in Blocks : \A k \in Keys : blk.attrs[k].t # "badmarshaler"}

NewResolveEncodable == NewResolveWith(EncodableBlocks)

\* the call has returned: its locals are gone; what stays is what it left
\* open, and (for the record) the object the call fetched, if any
CallReturned ==
  /\ pc = "done"
  /\ prev' = IF Fetched
             THEN [some |-> TRUE, bucket |-> b.bucket, key |-> b.key,
                   region |-> b.region, role_arn |-> b.role_arn]
             ELSE NoPrev
  /\ cfg' = NoBlock
  /\ pc' = "idle"
  /\ b' = ZeroConfig
  /\ log' = <<>>
  /\ ret' = [result |-> NoResult, err |-> NoErr]
  /\ stream' = NoStream
  /\ sess' = ""
  /\ creds' = ""
  /\ UNCHANGED <<openFiles, openBodies, resolves>>

Next ==
  \/ NewBackend
  \/ NewBackendReturn
  \/ LocalDecode
  \/ LocalOpen
  \/ LocalParse
  \/ S3Decode
  \/ S3DiscoverySession
  \/ S3GetBucketRegion
  \/ S3NewSession
  \/ S3AssumeRole
  \/ S3GetObject
  \/ S3Parse
  \/ NewResolve
  \/ CallReturned

Spec == Init /\ [][Next]_vars

\* the same program called only with payloads that yaml.Marshal can encode
NextEncodable ==
  \/ NewBackend
  \/ NewBackendReturn
  \/ LocalDecode
  \/ LocalOpen
  \/ LocalParse
  \/ S3Decode
  \/ S3DiscoverySession
  \/ S3GetBucketRegion
  \/ S3NewSession
  \/ S3AssumeRole
  \/ S3GetObject
  \/ S3Parse
  \/ NewResolveEncodable
  \/ CallReturned

SpecEncodable == Init /\ [][NextEncodable]_vars

(* ------------------------------ properties ----------------------------- *)

Count(op) == Cardinality({i \in 1..Len(log) : log[i].op = op})
Did(op, ok) == \E i \in 1..Len(log) : log[i].op = op /\ log[i].ok = ok
IoOps == {"Open", "NewSession", "GetBucketRegion", "NewSessionWithOptions", "GetObject"}
NoIo == \A i \in 1..Len(log) : log[i].op \notin IoOps

InCall == pc # "idle"
Remote == InCall /\ cfg.BackendType = "s3"
Local == InCall /\ cfg.BackendType = "local"
\* the resolve is over: NewBackend returned, or the call panicked
Ended == pc \in {"done", "panic"}
\* the strategy has returned
StrategyReturned == pc \in {"local_returned", "s3_returned", "done"}
ConfigDecoded == Did("DecodeBody", TRUE) \/ Did("Unmarshal", TRUE)
ConfigErrors == {"cannot parse local backend config", "cannot parse s3 backend config"}

\* a key the block's payload does not have
Lacks(k) == cfg.attrs[k].t = "absent"
\* the remote config the block decodes to
DecodedS3 == DecodeConfig(cfg, S3Required, S3Optional).b

\* C1: NewBackend ends either with an error and no result, or with a result
\* and no error whose document has the supported version, whose name is the
\* block's name and whose kind is the kind dispatched on.
C1_ResultOrError ==
  Ended =>
    \/ ret.err # NoErr /\ ret.result = NoResult
    \/ /\ ret.err = NoErr
       /\ ~ret.result.nil
       /\ ~ret.result.Data.nil
       /\ ret.result.Data.Version = StateVersion
       /\ ret.result.BackendName = cfg.BackendName
       /\ ret.result.BackendType = cfg.BackendType
       /\ cfg.BackendType \in {"local", "s3"}

\* C2: a kind other than "local" and "s3" fails with "unsupported backend";
\* nothing is decoded and no file, session, lookup or fetch is touched.
C2_UnsupportedKindDoesNothing ==
  (InCall /\ cfg.BackendType \notin {"local", "s3"}) =>
    /\ pc \in {"NewBackend", "done"}
    /\ log = <<>>
    /\ b = ZeroConfig /\ stream = NoStream /\ sess = "" /\ creds = ""
    /\ pc = "done" => ret = [result |-> NoResult, err |-> Err("unsupported backend", -1, "")]

C2_Witness ==
  /\ pc = "done"
  /\ cfg.BackendType = "gcs"
  /\ cfg.format = ConfigHCL
  /\ cfg.attrs["bucket"] = Str("bucket1")
  /\ ret.err.msg = "unsupported backend"

\* C3: a payload that lacks a required field (path; bucket or key) fails with
\* the config-decode error, in both formats, and no file is opened and no
\* session, lookup or fetch is made.
C3_MissingFieldFailsDecode ==
  (\/ Local /\ Lacks("path")
   \/ Remote /\ (Lacks("bucket") \/ Lacks("key"))) =>
    /\ NoIo
    /\ StrategyReturned => ret.err.msg \in ConfigErrors

\* the strategy has just returned what the parser made of the stream
Parsed == pc \in {"local_returned", "s3_returned"} /\ Count("parseAndValidate") = 1
FormatError == Err("invalid tf state file", -1, "")
VersionError(v) == Err("unsupported state version", v, "")

\* C4 (as claimed): a stream that is not valid JSON, or not an object with a
\* numeric version member (e.g. an object without one), fails with "invalid
\* tf state file"; an object whose version differs from the constant fails
\* with the version error carrying it; only the constant yields a document.
C4_ParserClassification ==
  Parsed =>
    /\ (\/ stream.first \in {"notjson", "array", "null"}
        \/ stream.trailing
        \/ stream.first = "object" /\ stream.ver \in {"absent", "null", "string"})
         => ret = [result |-> NoResult, err |-> FormatError]
    /\ (/\ stream.first = "object" /\ stream.rest = "ok"
        /\ stream.ver = "int" /\ stream.n # StateVersion)
         => ret = [result |-> NoResult, err |-> VersionError(stream.n)]
    /\ ~ret.result.nil
         => stream.first = "object" /\ stream.ver = "int" /\ stream.n = StateVersion
    /\ ret.err # NoErr => ret.result = NoResult

\* C4 (amended): the parser reads the leading JSON value only. It fails with
\* "invalid tf state file" when that value is not JSON, is neither an object
\* nor null, or is an object with a member of the wrong JSON type (a version
\* that is not an integer number); a null value and an object whose version
\* member is missing or null decode to version 0 and fail with the version
\* error carrying 0; an integer version other than the constant fails with
\* the version error carrying it; only the constant yields a document, and
\* a failure yields none.
C4_ParserClassificationAmended ==
  Parsed =>
    /\ (\/ stream.first \in {"notjson", "array"}
        \/ stream.first = "object" /\ stream.ver \in {"string", "fraction"}
        \/ stream.first = "object" /\ stream.rest = "mistyped")
         => ret = [result |-> NoResult, err |-> FormatError]
    /\ (\/ stream.first = "null"
        \/ stream.first = "object" /\ stream.rest = "ok" /\ stream.ver \in {"absent", "null"})
         => ret = [result |-> NoResult, err |-> VersionError(0)]
    /\ (/\ stream.first = "object" /\ stream.rest = "ok"
        /\ stream.ver = "int" /\ stream.n # StateVersion)
         => ret = [result |-> NoResult, err |-> VersionError(stream.n)]
    /\ (/\ stream.first = "object" /\ stream.rest = "ok"
        /\ stream.ver = "int" /\ stream.n = StateVersion)
         => /\ ret.err = NoErr
            /\ ~ret.result.nil /\ ret.result.Data = [nil |-> FALSE, Version |-> StateVersion]
    /\ ret.err # NoErr => ret.result = NoResult

C4_Witness ==
  /\ Parsed
  /\ stream = Stream("object", "absent", 0, "ok", FALSE)
  /\ ret.err = VersionError(0)

\* position of a call in the log
At(op) == CHOOSE i \in 1..Len(log) : log[i].op = op

\* C5: with an empty decoded region a remote resolve issues exactly one
\* region lookup, before the fetch, and the fetch uses the region it
\* returned; with a region configured it issues no lookup.
C5_DiscoveryOnceBeforeFetch ==
  (Remote /\ ConfigDecoded) =>
    IF DecodedS3.region = ""
    THEN /\ Count("GetBucketRegion") <= 1
         /\ Ended => Count("GetBucketRegion") = 1
         /\ Fetched => /\ Did("GetBucketRegion", TRUE)
                       /\ At("GetBucketRegion") < At("GetObject")
                       /\ log[At("GetObject")].arg = log[At("GetBucketRegion")].arg
    ELSE Count("GetBucketRegion") = 0

\* the decoded roleArn is non-empty and not an ARN
MalformedRole == DecodedS3.role_arn \in {ShortArn, NoPrefixArn}

\* C6 (as claimed): a non-empty malformed roleArn makes the resolve fail with
\* the role-ARN error, no fetch is attempted and no credentials are derived.
C6_MalformedRoleFailsWithArnError ==
  (Remote /\ ConfigDecoded /\ MalformedRole) =>
    /\ ~Fetched
    /\ creds = ""
    /\ pc = "done" => ret.err.msg = "arn: invalid"

\* C6 (amended): with a non-empty malformed roleArn the fetch is never
\* attempted, no credentials are derived and no result is returned; the
\* resolve fails with the role-ARN error whenever region resolution and
\* session creation have succeeded, and otherwise it ends at that earlier
\* step.
C6_MalformedRoleNeverFetches ==
  (Remote /\ ConfigDecoded /\ MalformedRole) =>
    /\ ~Fetched
    /\ creds = ""
    /\ ret.result = NoResult
    /\ pc # "s3_fetch" /\ pc # "s3_parse"
    /\ (pc = "done" /\ Did("NewSessionWithOptions", TRUE))
         => ret.err = Err("arn: invalid", -1, DecodedS3.role_arn)
    /\ (pc = "done" /\ ~Did("NewSessionWithOptions", TRUE))
         => /\ ret.err.msg \in {"GetBucketRegion", "NewSessionWithOptions"}
            /\ Count("arn.Parse") = 0

C6_Witness ==
  /\ pc = "done"
  /\ DecodedS3.role_arn = ShortArn
  /\ Did("GetBucketRegion", TRUE)
  /\ Did("arn.Parse", FALSE)
  /\ ret.err.msg = "arn: invalid"

\* C7: a local resolve holds a file handle only between a successful open
\* and the return of NewLocalTerraformBackend; on every exit path none is
\* open once the strategy has returned.
C7_LocalHandleReleased ==
  /\ openFiles \in {0, 1}
  /\ openFiles = 1 <=> pc = "local_parse"
  /\ openFiles = 1 => Did("Open", TRUE)
  /\ (Local /\ StrategyReturned) => openFiles = 0

C7_Witness ==
  /\ pc = "local_returned"
  /\ Did("Open", TRUE)
  /\ ret.err = VersionError(StateVersion - 1)
  /\ openFiles = 0

\* C8: a response body handed back by a successful fetch is closed before
\* NewS3TerraformBackend returns, on success and on both parser failures.
C8_ResponseBodyReleased ==
  (Remote /\ StrategyReturned) => openBodies = 0

\* C9: the first step that fails ends the resolve with an error returned to
\* the caller; no step runs after a failed one.
C9_FirstFailureEndsResolve ==
  \A i \in 1..Len(log) :
    ~log[i].ok => /\ i = Len(log)
                  /\ StrategyReturned
                  /\ ret.err # NoErr

\* decoding, region resolution, session creation and role handling succeeded
PastRoleHandling ==
  /\ Remote
  /\ Did("NewSessionWithOptions", TRUE)
  /\ b.role_arn = "" \/ Did("arn.Parse", TRUE)

\* C10: every remote resolve that gets past decoding, region resolution,
\* session creation and role handling issues exactly one fetch of its own,
\* also when the previous resolve fetched the same object: no result is
\* reused and a failed fetch is not repeated.
C10_OneFetchPerResolve ==
  /\ Count("GetObject") <= 1
  /\ (PastRoleHandling /\ pc # "s3_fetch") => Count("GetObject") = 1
  /\ Fetched => PastRoleHandling

C10_Witness ==
  /\ pc = "done"
  /\ resolves = 2
  /\ prev = [some |-> TRUE, bucket |-> b.bucket, key |-> b.key,
             region |-> b.region, role_arn |-> b.role_arn]
  /\ b.bucket = "bucket1"
  /\ Count("GetObject") = 1
  /\ ~ret.result.nil

====
